---------------------------- MODULE Spec2Model ----------------------------
(***************************************************************************)
(* Proxy pool manager of Sneak-n-Snipe (services/proxy/proxy-manager.py)   *)
(* and the periodic worker task rotate_proxies (worker/celery-worker.py).  *)
(*                                                                         *)
(* The Redis store is the variable redis: the two sets proxies:active and  *)
(* proxies:burned, the hashes proxy:<url>, their expiry flags, the hash    *)
(* metrics:proxy_health and the messages published on system_alerts.       *)
(* Every handler is one action: its awaits are taken in program order.     *)
(* The variable service holds the tasks start created and the state of     *)
(* the manager's HTTP and store clients; a store operation that fails is   *)
(* an input of the actions GetProxyFailing and ReportUsageFailing.         *)
(*                                                                         *)
(* Abstractions.  Time is the integer reading of the clock, in minutes.    *)
(* A health score is the exact rational <<num, den>> of the formula in     *)
(* Proxy.health_score (the code computes it in floating point).  The store *)
(* returns the field values it was given (the string encoding of Redis is  *)
(* not modelled); Proxy.to_dict / from_dict are modelled by what they do   *)
(* to the fields: to_dict keeps the last KeepLast response times.          *)
(* An optional value is a sequence of length 0 (None) or 1.                *)
(***************************************************************************)
EXTENDS Integers, Sequences, FiniteSets, TLC

\* ------------------------------------------------------------------ bounds
MaxNow == 60
TickStep == 30
MaxReports == 2

\* ------------------------------------------------------ program constants
KeepLast == 100
DefaultMinHealthScore == 70
DefaultBatch == 10
BurnFailurePercent == 30
BurnMinRequests == 10
UnhealthyBelow == 50
BurnBelow == 20
MinHealthy == 10
TargetPool == 20
RetentionSeconds == 86400
RotateAfterMinutes == 15
CostAlertMilli == 5000

NoTime == -1
None == <<>>
\* a provider the defaultdict cost_tracker holds no entry for
NoEntry == -1

BrightDataUrl == "http://zproxy.lum-superproxy.io:22225"
OxylabsUrl == "http://pr.oxylabs.io:7777"
Urls == {BrightDataUrl, OxylabsUrl}
ProviderOrder == <<"bright_data", "oxylabs">>
ProviderNames == {"bright_data", "oxylabs"}
Callers == {"c1", "c2"}
OneCaller == {"c1"}

\* ------------------------------------------------------------ Proxy (46-125)
\* The dataclass Proxy with its defaults.
Proxy(url, provider, proxy_type, location, username, sticky) ==
  [ url |-> url, provider |-> provider, proxy_type |-> proxy_type,
    location |-> location, username |-> username, password |-> "pw",
    sticky_session_id |-> sticky,
    requests |-> 0, failures |-> 0, success |-> 0,
    total_bandwidth_mb |-> 0, last_used |-> NoTime, last_error |-> None,
    response_times |-> <<>> ]

\* sum(s[lo..hi]), by halves
RECURSIVE SumRange(_, _, _)
SumRange(s, lo, hi) ==
  IF lo > hi THEN 0
  ELSE IF lo = hi THEN s[lo]
  ELSE LET mid == (lo + hi) \div 2
       IN  SumRange(s, lo, mid) + SumRange(s, mid + 1, hi)

SumSeq(s) == SumRange(s, 1, Len(s))

\* s[-100:]
LastN(s, n) == IF Len(s) <= n THEN s ELSE SubSeq(s, Len(s) - n + 1, Len(s))

Max(a, b) == IF a >= b THEN a ELSE b
Min(a, b) == IF a <= b THEN a ELSE b

\* failure_rate > pct, with failure_rate = failures / requests * 100 (0 when
\* requests = 0)
failure_rate_above(p, pct) ==
  IF p.requests > 0 THEN p.failures * 100 > pct * p.requests ELSE 0 > pct

\* avg_response_time as <<sum, count>> of the last 100 samples (0 when empty)
avg_response_time(p) ==
  LET w == LastN(p.response_times, KeepLast)
  IN  IF w = <<>> THEN <<0, 1>> ELSE <<SumSeq(w), Len(w)>>

\* health_score with the recency score always 10
health_score_full_recency(p, t) ==
  IF p.requests = 0 THEN <<100, 1>>
  ELSE
    LET avg == avg_response_time(p)
        r   == p.requests
        n   == avg[2]
        den == 300 * r * n
        success_rate == 18000 * p.success * n
        time_score == IF avg[1] > 0 THEN Max(0, 1500 * n - avg[1]) * 6 * r
                      ELSE 9000 * r * n
        recency_score == 3000 * r * n
    IN  <<Min(100 * den, success_rate + time_score + recency_score), den>>

\* health_score without the max(0, ...) of the response time score
health_score_unclamped(p, t) ==
  IF p.requests = 0 THEN <<100, 1>>
  ELSE
    LET avg == avg_response_time(p)
        r   == p.requests
        n   == avg[2]
        den == 300 * r * n
        success_rate == 18000 * p.success * n
        time_score == IF avg[1] > 0 THEN (1500 * n - avg[1]) * 6 * r
                      ELSE 9000 * r * n
        recency_score == IF p.last_used # NoTime
                         THEN Max(0, 60 - (t - p.last_used)) * 50 * r * n
                         ELSE 3000 * r * n
    IN  <<Min(100 * den, success_rate + time_score + recency_score), den>>

\* health_score with the success factor always 60
health_score_ignores_success(p, t) ==
  IF p.requests = 0 THEN <<100, 1>>
  ELSE
    LET avg == avg_response_time(p)
        r   == p.requests
        n   == avg[2]
        den == 300 * r * n
        success_rate == 18000 * r * n
        time_score == IF avg[1] > 0 THEN Max(0, 1500 * n - avg[1]) * 6 * r
                      ELSE 9000 * r * n
        recency_score == IF p.last_used # NoTime
                         THEN Max(0, 60 - (t - p.last_used)) * 50 * r * n
                         ELSE 3000 * r * n
    IN  <<Min(100 * den, success_rate + time_score + recency_score), den>>

\* health_score at clock reading t, as the exact fraction <<num, den>>
health_score(p, t) ==
  IF p.requests = 0 THEN <<100, 1>>
  ELSE
    LET avg == avg_response_time(p)
        r   == p.requests
        n   == avg[2]
        den == 300 * r * n
        \* (success / requests) * 60
        success_rate == 18000 * p.success * n
        \* max(0, 30 - avg_time / 50) if avg_time > 0 else 30
        time_score == IF avg[1] > 0 THEN Max(0, 1500 * n - avg[1]) * 6 * r
                      ELSE 9000 * r * n
        \* max(0, 10 - minutes_ago / 6), 10 when never used
        recency_score == IF p.last_used # NoTime
                         THEN Max(0, 60 - (t - p.last_used)) * 50 * r * n
                         ELSE 3000 * r * n
    IN  <<Min(100 * den, success_rate + time_score + recency_score), den>>

\* a/b < c/d for b, d > 0, without forming the cross products
RECURSIVE FracLess(_, _, _, _)
FracLess(a, b, c, d) ==
  LET qa == a \div b
      qc == c \div d
      ra == a % b
      rc == c % d
  IN  IF qa # qc THEN qa < qc
      ELSE IF rc = 0 THEN FALSE
      ELSE IF ra = 0 THEN TRUE
      ELSE FracLess(d, rc, b, ra)

ScoreLess(s1, s2) == FracLess(s1[1], s1[2], s2[1], s2[2])
ScoreBelow(s, k) == s[1] < k * s[2]

\* to_dict: the stored mapping keeps the last 100 response times
to_dict(p) == [p EXCEPT !.response_times = LastN(@, KeepLast)]
\* from_dict: rebuilds the object from the stored mapping
from_dict(data) == data


\* ----------------------------------------------------- providers (140-207)
\* f"{int(time.time())}{i}": the decimal digits of i appended to those of t
ConcatDigits(t, i) == t * (IF i < 10 THEN 10 ELSE 100) + i

\* BrightDataProvider.get_proxies: count ISP proxies, sticky session i of t
BrightDataProxy(t, i) ==
  Proxy(BrightDataUrl, "bright_data", "isp", "us",
        <<"session", t, i>>, <<"session", t, i>>)
\* OxylabsProvider.get_proxies: count residential proxies, no sticky session
OxylabsProxy(t, i) ==
  Proxy(OxylabsUrl, "oxylabs", "residential", "us",
        <<"sessid", ConcatDigits(t, i)>>, None)

get_proxies(provider, count, t) ==
  [k \in 1..count |->
     IF provider = "bright_data" THEN BrightDataProxy(t, k - 1)
     ELSE OxylabsProxy(t, k - 1)]

\* rotate_ip with the random draw rnd: Bright Data renews the sticky session
\* and the username built from it, Oxylabs the last part of the username
rotate_ip(p, t, rnd) ==
  IF p.provider = "bright_data"
  THEN [p EXCEPT !.sticky_session_id = <<"session", t, rnd>>,
                 !.username = <<"session", t, rnd>>]
  ELSE [p EXCEPT !.username = <<"sessid", t * 1000 + rnd>>]

\* ------------------------------------------------------- store operations
\* _save_proxy without its HSET
save_proxy_skips_write(st, p) == st

\* _save_proxy: HSET proxy:<url> with the mapping of to_dict (an existing
\* expiry of the key is kept by HSET)
save_proxy(st, p) ==
  [st EXCEPT !.proxy[p.url] = <<to_dict(p)>>]

\* the alert published by _burn_proxy
BurnAlert(p) ==
  [type |-> "alert", message |-> "Proxy burned", severity |-> "warning",
   proxy_url |-> p.url]

\* _burn_proxy without its SREM
burn_proxy_keeps_active(st, p) ==
  [st EXCEPT !.burned = @ \cup {p.url},
             !.expire[p.url] = IF st.proxy[p.url] # None THEN RetentionSeconds
                               ELSE @,
             !.system_alerts = Append(@, BurnAlert(p))]

\* _burn_proxy putting an identifier that is already burned back in the pool
burn_proxy_toggles(st, p) ==
  IF p.url \in st.burned
  THEN [st EXCEPT !.active = @ \cup {p.url},
                  !.burned = @ \ {p.url},
                  !.system_alerts = Append(@, BurnAlert(p))]
  ELSE [st EXCEPT !.active = @ \ {p.url},
                  !.burned = @ \cup {p.url},
                  !.expire[p.url] = IF st.proxy[p.url] # None
                                    THEN RetentionSeconds ELSE @,
                  !.system_alerts = Append(@, BurnAlert(p))]

\* _burn_proxy without its EXPIRE
burn_proxy_without_expire(st, p) ==
  [st EXCEPT !.active = @ \ {p.url},
             !.burned = @ \cup {p.url},
             !.system_alerts = Append(@, BurnAlert(p))]

\* _burn_proxy: SREM active, SADD burned, EXPIRE 86400 (of an existing key),
\* PUBLISH system_alerts
burn_proxy(st, p) ==
  [st EXCEPT !.active = @ \ {p.url},
             !.burned = @ \cup {p.url},
             !.expire[p.url] = IF st.proxy[p.url] # None THEN RetentionSeconds
                               ELSE @,
             !.system_alerts = Append(@, BurnAlert(p))]

\* for proxy in new_proxies: _save_proxy(proxy); SADD proxies:active
RECURSIVE save_and_activate(_, _)
save_and_activate(st, new_proxies) ==
  IF new_proxies = <<>> THEN st
  ELSE save_and_activate(
         [save_proxy(st, Head(new_proxies))
            EXCEPT !.active = @ \cup {Head(new_proxies).url}],
         Tail(new_proxies))

\* every provider asked for the whole target
proxies_per_provider_whole(count, provs) == count

\* count // len(self.providers) if self.providers else count
proxies_per_provider(count, provs) ==
  IF provs # {} THEN count \div Cardinality(provs) ELSE count

\* _provision_proxies: every registered provider, in registration order
RECURSIVE provision_from(_, _, _, _, _)
provision_from(st, names, provs, per, t) ==
  IF names = <<>> THEN st
  ELSE provision_from(
         IF Head(names) \in provs
         THEN save_and_activate(st, get_proxies(Head(names), per, t))
         ELSE st,
         Tail(names), provs, per, t)

provision_proxies(st, count, provs, t) ==
  provision_from(st, ProviderOrder, provs, proxies_per_provider(count, provs), t)

\* _provision_proxies when one store operation fails: the HSET of
\* _save_proxy or the SADD, on the first proxy of the first registered
\* provider.  The except clause of lines 350-351 ends that provider's batch
\* and the loop goes on with the next provider.
RECURSIVE provision_failing_from(_, _, _, _, _, _, _)
provision_failing_from(st, names, provs, per, t, at, failed) ==
  IF names = <<>> THEN st
  ELSE IF Head(names) \notin provs
       THEN provision_failing_from(st, Tail(names), provs, per, t, at, failed)
       ELSE IF failed \/ per = 0
            THEN provision_failing_from(
                   save_and_activate(st, get_proxies(Head(names), per, t)),
                   Tail(names), provs, per, t, at, failed)
            ELSE provision_failing_from(
                   IF at = "provision_sadd"
                   THEN save_proxy(st, get_proxies(Head(names), per, t)[1])
                   ELSE st,
                   Tail(names), provs, per, t, at, TRUE)

provision_failing(st, count, provs, t, at) ==
  provision_failing_from(st, ProviderOrder, provs,
                         proxies_per_provider(count, provs), t, at, FALSE)

\* ------------------------------------------------------ get_proxy (259-307)
\* An iteration order of a set returned by SMEMBERS
Orders(S) ==
  {o \in [1..Cardinality(S) -> S] : \A i, j \in DOMAIN o : i # j => o[i] # o[j]}

\* requirements.get(...) with the defaults of lines 262-264
Requirements(type, location, min_health_score) ==
  [type |-> type, location |-> location, min_health_score |-> min_health_score]

\* the filters without the health-score test
passes_filters_ignores_health(p, req, t) ==
  /\ ~(req.type # "any" /\ p.proxy_type # req.type)
  /\ ~(req.location # "any" /\ p.location # req.location)

\* the filters without the location test
passes_filters_ignores_location(p, req, t) ==
  /\ ~(req.type # "any" /\ p.proxy_type # req.type)
  /\ ~ScoreBelow(health_score(p, t), req.min_health_score)

\* the three filters of lines 284-289 (TRUE: the proxy is kept)
passes_filters(p, req, t) ==
  /\ ~(req.type # "any" /\ p.proxy_type # req.type)
  /\ ~(req.location # "any" /\ p.location # req.location)
  /\ ~ScoreBelow(health_score(p, t), req.min_health_score)

\* the loop of lines 276-291: the proxies kept, in scan order
RECURSIVE scored_proxies(_, _, _, _)
scored_proxies(st, order, req, t) ==
  IF order = <<>> THEN <<>>
  ELSE LET data == st.proxy[Head(order)]
           rest == scored_proxies(st, Tail(order), req, t)
       IN  IF data = None THEN rest
           ELSE IF passes_filters(from_dict(data[1]), req, t)
                THEN <<from_dict(data[1])>> \o rest
                ELSE rest

\* list.sort(key = score, reverse = True): stable, descending
RECURSIVE insert_desc(_, _, _)
insert_desc(sorted, p, t) ==
  IF sorted = <<>> THEN <<p>>
  ELSE IF ScoreLess(health_score(Head(sorted), t), health_score(p, t))
       THEN <<p>> \o sorted
       ELSE <<Head(sorted)>> \o insert_desc(Tail(sorted), p, t)

RECURSIVE sort_desc_from(_, _, _)
sort_desc_from(sorted, rest, t) ==
  IF rest = <<>> THEN sorted
  ELSE sort_desc_from(insert_desc(sorted, Head(rest), t), Tail(rest), t)

\* the sort without reverse = True: the first of the ascending order
best_proxy_ascending(scored, t) ==
  sort_desc_from(<<>>, scored, t)[Len(scored)]

\* scored_proxies.sort(...); best_proxy = scored_proxies[0][1]
best_proxy(scored, t) == sort_desc_from(<<>>, scored, t)[1]

\* provisioning whenever fewer than two proxies are active
pool_is_low(proxy_urls) == Cardinality(proxy_urls) < 2

\* if not proxy_urls: (line 269)
pool_is_empty(proxy_urls) == proxy_urls = {}


\* -------------------------------------------------- report_usage (309-331)
\* the update without the else branch of line 317
report_stats_forgets_failures(p, success, response_time, bandwidth_mb, error) ==
  [p EXCEPT !.requests = @ + 1,
            !.success = IF success THEN @ + 1 ELSE @,
            !.last_error = IF success THEN @ ELSE error,
            !.response_times = Append(@, response_time),
            !.total_bandwidth_mb = @ + bandwidth_mb]

\* the update with last_error reset by a success
report_stats_clears_error(p, success, response_time, bandwidth_mb, error) ==
  [p EXCEPT !.requests = @ + 1,
            !.success = IF success THEN @ + 1 ELSE @,
            !.failures = IF success THEN @ ELSE @ + 1,
            !.last_error = IF success THEN None ELSE error,
            !.response_times = Append(@, response_time),
            !.total_bandwidth_mb = @ + bandwidth_mb]

\* lines 312-321: the update of the caller's proxy object
report_stats(p, success, response_time, bandwidth_mb, error) ==
  [p EXCEPT !.requests = @ + 1,
            !.success = IF success THEN @ + 1 ELSE @,
            !.failures = IF success THEN @ ELSE @ + 1,
            !.last_error = IF success THEN @ ELSE error,
            !.response_times = Append(@, response_time),
            !.total_bandwidth_mb = @ + bandwidth_mb]

\* if proxy.failure_rate > 30 and proxy.requests > 10: (line 330)
should_burn(p) ==
  failure_rate_above(p, BurnFailurePercent) /\ p.requests > BurnMinRequests

\* _calculate_cost, in units of 1/1024 of a thousandth of a dollar:
\* (bandwidth_mb / 1024) * rate per GB, plus $0.001 for residential
CostUnitsPerMilli == 1024
cost_per_gb(proxy_type) ==
  CASE proxy_type = "residential" -> 15000
    [] proxy_type = "isp"         -> 3000
    [] proxy_type = "datacenter"  -> 500
    [] OTHER                      -> 1000

\* _calculate_cost without the per-request cost of lines 512-513
calculate_cost_no_request_cost(p, bandwidth_mb) ==
  bandwidth_mb * cost_per_gb(p.proxy_type)

calculate_cost(p, bandwidth_mb) ==
  bandwidth_mb * cost_per_gb(p.proxy_type)
    + (IF p.proxy_type = "residential" THEN CostUnitsPerMilli ELSE 0)

\* ------------------------------------------------------------------ state
VARIABLES
  providers,     \* self.providers: the registered provider names
  redis,         \* the store
  held,          \* the Proxy object each caller got from get_proxy, or None
  cost_tracker,  \* self.cost_tracker
  now,           \* the clock
  reports,       \* number of report_usage calls made (bounds the run)
  service,       \* the manager's background tasks and its two clients
  call           \* what the last operation did (observation only)

vars == <<providers, redis, held, cost_tracker, now, reports, service, call>>

EmptyStore ==
  [ active |-> {}, burned |-> {},
    proxy |-> [u \in Urls |-> None],
    expire |-> [u \in Urls |-> 0],
    metrics_proxy_health |-> None,
    metrics_proxy_cost_today |-> 0,
    metrics_proxy_cost_breakdown |-> None,
    proxy_manager_final_stats |-> None,
    system_alerts |-> <<>> ]

NoCall ==
  [ op |-> "none", caller |-> "none", req |-> None, active_before |-> {},
    provisioned |-> <<>>, reads |-> 0, scanned |-> <<>>, ret |-> None,
    burns |-> <<>>, healthy |-> 0, unhealthy |-> 0,
    args |-> None, failed |-> None, raised |-> FALSE ]

\* the three tasks created by start (lines 236-238)
Loops == {"health_monitor", "cost_monitor", "rotation_scheduler"}
\* the manager after start: the loops scheduled, both clients open
Started ==
  [tasks |-> Loops, http_client |-> "open", redis_client |-> "open"]

\* Records the running program leaves in the store: a proxy after r reports
\* of which f failed, each of the given response time, last used at 0.
Used(p, r, f, times) ==
  [p EXCEPT !.requests = r, !.failures = f, !.success = r - f,
            !.response_times = times, !.last_used = 0,
            !.last_error = IF f > 0 THEN <<"timeout">> ELSE None]

Repeat(x, n) == [i \in 1..n |-> x]

\* Stores of a pool in use (both providers' proxies active, none burned yet)
StoreInUse(bd, ox) ==
  [EmptyStore EXCEPT !.active = Urls,
                     !.proxy = (BrightDataUrl :> <<bd>>) @@ (OxylabsUrl :> <<ox>>)]

InitialStores ==
  { EmptyStore,
    \* one report short of requests > 10; failure rate exactly 30%
    StoreInUse(Used(BrightDataProxy(0, 4), 10, 4, Repeat(100, 10)),
               Used(OxylabsProxy(0, 4), 20, 6, Repeat(100, 20))),
    \* a very unhealthy proxy and an unused one
    StoreInUse(Used(BrightDataProxy(0, 4), 5, 5, Repeat(1500, 5)),
               OxylabsProxy(0, 4)) }

\* a proxy whose buffer holds 100 samples, the oldest the slow one
BufferStores ==
  { StoreInUse(BrightDataProxy(0, 4),
               Used(OxylabsProxy(0, 4), 100, 0,
                    <<1500>> \o Repeat(100, KeepLast - 1))) }

ProviderSets == {{}, ProviderNames}
\* each provider is registered when its environment variables are set
ProviderSubsets == SUBSET ProviderNames

\* cost_tracker = defaultdict(float): an entry read before it exists is 0.0
NoCosts == [n \in ProviderNames |-> NoEntry]
Cost(tracker, n) == IF tracker[n] = NoEntry THEN 0 ELSE tracker[n]

Init ==
  /\ providers \in ProviderSets
  /\ redis \in InitialStores
  /\ held = [c \in Callers |-> None]
  /\ cost_tracker = NoCosts
  /\ now = 0
  /\ reports = 0
  /\ service = Started
  /\ call = NoCall


\* --------------------------------------------------------------- actions
\* what a scan loaded for one identifier (observation)
Seen(p, t) ==
  [url |-> p.url, proxy_type |-> p.proxy_type, location |-> p.location,
   score |-> health_score(p, t)]

RECURSIVE Loaded(_, _, _)
Loaded(st, order, t) ==
  IF order = <<>> THEN <<>>
  ELSE IF st.proxy[Head(order)] = None THEN Loaded(st, Tail(order), t)
       ELSE <<Seen(from_dict(st.proxy[Head(order)][1]), t)>>
              \o Loaded(st, Tail(order), t)

\* get_proxy(requirements) called by c
GetProxy(c, req) ==
  LET proxy_urls0 == redis.active
      empty == pool_is_empty(proxy_urls0)
      st1 == IF empty
             THEN provision_proxies(redis, DefaultBatch, providers, now)
             ELSE redis
      proxy_urls == st1.active
  IN  \E order \in Orders(proxy_urls) :
        LET scored == scored_proxies(st1, order, req, now)
            found  == scored # <<>>
            best   == [best_proxy(scored, now) EXCEPT !.last_used = now]
        IN  /\ redis' = IF found THEN save_proxy(st1, best) ELSE st1
            /\ held' = [held EXCEPT ![c] = IF found THEN <<best>> ELSE None]
            /\ call' = [NoCall EXCEPT
                          !.op = "get_proxy", !.caller = c, !.req = <<req>>,
                          !.active_before = proxy_urls0,
                          !.provisioned = IF empty THEN <<DefaultBatch>>
                                          ELSE <<>>,
                          !.reads = IF empty THEN 2 ELSE 1,
                          !.scanned = Loaded(st1, order, now),
                          !.ret = IF found THEN <<best.url>> ELSE None]
            /\ UNCHANGED <<providers, cost_tracker, now, reports, service>>

\* report_usage(proxy, success, response_time, bandwidth_mb, error) called by
\* c on the proxy object it holds
ReportUsage(c, success, response_time, bandwidth_mb, error) ==
  /\ held[c] # None
  /\ reports < MaxReports
  /\ LET proxy == report_stats(held[c][1], success, response_time,
                               bandwidth_mb, error)
         st1   == save_proxy(redis, proxy)
         burn  == should_burn(proxy)
     IN  /\ held' = [held EXCEPT ![c] = <<proxy>>]
         /\ cost_tracker' = [cost_tracker EXCEPT ![proxy.provider] =
                               Cost(cost_tracker, proxy.provider)
                                 + calculate_cost(proxy, bandwidth_mb)]
         /\ redis' = IF burn THEN burn_proxy(st1, proxy) ELSE st1
         /\ call' = [NoCall EXCEPT
                       !.op = "report_usage", !.caller = c,
                       !.args = <<[success |-> success,
                                   response_time |-> response_time,
                                   bandwidth_mb |-> bandwidth_mb,
                                   error |-> error]>>,
                       !.active_before = redis.active,
                       !.ret = <<proxy.url>>,
                       !.burns = IF burn THEN <<proxy.url>> ELSE <<>>]
  /\ reports' = reports + 1
  /\ UNCHANGED <<providers, now, service>>

\* ProxiedClient.request (lines 588-628).  outcome: the outbound request
\* completed ("ok"), raise_for_status raised for an error status ("status"),
\* or the request itself raised ("exception").
\* a client that reports the size of a response with an error status
request_reports_counts_errors(found, outcome, response_time, content_mb) ==
  IF ~found THEN <<>>
  ELSE <<[success |-> outcome = "ok",
          response_time |-> response_time,
          bandwidth_mb |-> IF outcome # "exception" THEN content_mb ELSE 0,
          error |-> IF outcome = "ok" THEN None ELSE <<outcome>>]>>

\* the report_usage calls of one request: none when get_proxy returned None
\* (line 592), else the one of the finally block (lines 617-628)
request_reports(found, outcome, response_time, content_mb) ==
  IF ~found THEN <<>>
  ELSE <<[success |-> outcome = "ok",
          response_time |-> response_time,
          bandwidth_mb |-> IF outcome = "ok" THEN content_mb ELSE 0,
          error |-> IF outcome = "ok" THEN None ELSE <<outcome>>]>>

ClientRequest(req, outcome, response_time, content_mb) ==
  LET empty == pool_is_empty(redis.active)
      st1 == IF empty
             THEN provision_proxies(redis, DefaultBatch, providers, now)
             ELSE redis
  IN  \E order \in Orders(st1.active) :
        LET scored == scored_proxies(st1, order, req, now)
            found  == scored # <<>>
            best   == [best_proxy(scored, now) EXCEPT !.last_used = now]
            st2    == IF found THEN save_proxy(st1, best) ELSE st1
            calls  == request_reports(found, outcome, response_time,
                                      content_mb)
            proxy  == report_stats(best, calls[1].success,
                                   calls[1].response_time,
                                   calls[1].bandwidth_mb, calls[1].error)
            st3    == save_proxy(st2, proxy)
        IN  /\ calls # <<>> => reports < MaxReports
            /\ redis' = IF calls = <<>> THEN st2
                        ELSE IF should_burn(proxy) THEN burn_proxy(st3, proxy)
                        ELSE st3
            /\ cost_tracker' =
                 IF calls = <<>> THEN cost_tracker
                 ELSE [cost_tracker EXCEPT ![proxy.provider] =
                         Cost(cost_tracker, proxy.provider)
                           + calculate_cost(proxy, calls[1].bandwidth_mb)]
            /\ reports' = reports + Len(calls)
            /\ call' = [NoCall EXCEPT
                          !.op = "request", !.req = <<req>>,
                          !.active_before = redis.active,
                          !.ret = IF found THEN <<best.url>> ELSE None,
                          !.args = calls,
                          !.burns = IF calls # <<>> /\ should_burn(proxy)
                                    THEN <<proxy.url>> ELSE <<>>,
                          !.failed = IF outcome = "ok" \/ ~found THEN None
                                     ELSE <<outcome>>,
                          !.raised = ~found \/ outcome # "ok"]
            /\ UNCHANGED <<providers, held, now, service>>

\* the store operations of get_proxy, in program order: SMEMBERS (267), the
\* HSET and SADD of the provisioning (346-347), SMEMBERS (272), HGETALL
\* (277), HSET (304)
GetProxyStoreOps ==
  {"smembers", "provision_hset", "provision_sadd", "smembers_again",
   "hgetall", "hset"}
InProvisioning == {"provision_hset", "provision_sadd"}

\* get_proxy(requirements) called by c when the store operation `at` fails
GetProxyFailing(c, req, at) ==
  LET proxy_urls0 == redis.active
      empty == pool_is_empty(proxy_urls0)
      st1 == IF ~empty THEN redis
             ELSE IF at \in InProvisioning
                  THEN provision_failing(redis, DefaultBatch, providers, now, at)
                  ELSE provision_proxies(redis, DefaultBatch, providers, now)
      \* only the provisioning runs inside a try block
      raises == at \notin InProvisioning
  IN  /\ at \in InProvisioning => empty /\ providers # {}
      /\ at = "smembers_again" => empty
      /\ at = "hgetall" => st1.active # {}
      /\ \E order \in Orders(st1.active) :
            LET scored == scored_proxies(st1, order, req, now)
                found  == scored # <<>>
                best   == [best_proxy(scored, now) EXCEPT !.last_used = now]
            IN  /\ at = "hset" => found
                /\ redis' = IF at = "smembers" THEN redis
                            ELSE IF raises THEN st1
                            ELSE IF found THEN save_proxy(st1, best)
                            ELSE st1
                /\ held' = IF raises THEN held
                           ELSE [held EXCEPT ![c] = IF found THEN <<best>>
                                                    ELSE None]
                /\ call' = [NoCall EXCEPT
                              !.op = "get_proxy", !.caller = c,
                              !.req = <<req>>,
                              !.active_before = proxy_urls0,
                              !.provisioned = IF empty /\ at # "smembers"
                                              THEN <<DefaultBatch>> ELSE <<>>,
                              !.ret = IF ~raises /\ found THEN <<best.url>>
                                      ELSE None,
                              !.failed = <<at>>,
                              !.raised = raises]
                /\ UNCHANGED <<providers, cost_tracker, now, reports, service>>

\* the store operations of report_usage: the HSET of _save_proxy (327) and
\* the first operation of _burn_proxy (365)
ReportUsageStoreOps == {"hset", "srem"}

\* report_usage called by c when the store operation `at` fails: the object
\* and the ledger are already updated (lines 312-324), the error propagates
ReportUsageFailing(c, success, response_time, bandwidth_mb, error, at) ==
  /\ held[c] # None
  /\ reports < MaxReports
  /\ LET proxy == report_stats(held[c][1], success, response_time,
                               bandwidth_mb, error)
     IN  /\ at = "srem" => should_burn(proxy)
         /\ held' = [held EXCEPT ![c] = <<proxy>>]
         /\ cost_tracker' = [cost_tracker EXCEPT ![proxy.provider] =
                               Cost(cost_tracker, proxy.provider)
                                 + calculate_cost(proxy, bandwidth_mb)]
         /\ redis' = IF at = "hset" THEN redis ELSE save_proxy(redis, proxy)
         /\ call' = [NoCall EXCEPT
                       !.op = "report_usage", !.caller = c,
                       !.active_before = redis.active,
                       !.failed = <<at>>,
                       !.raised = TRUE]
  /\ reports' = reports + 1
  /\ UNCHANGED <<providers, now, service>>

\* an iteration that burns every proxy it counts as unhealthy
RECURSIVE health_scan_burns_unhealthy(_, _, _)
health_scan_burns_unhealthy(acc, order, t) ==
  IF order = <<>> THEN acc
  ELSE LET data == acc.st.proxy[Head(order)]
       IN  IF data = None THEN health_scan_burns_unhealthy(acc, Tail(order), t)
           ELSE LET proxy == from_dict(data[1])
                    low   == ScoreBelow(health_score(proxy, t), UnhealthyBelow)
                IN  health_scan_burns_unhealthy(
                      [st |-> IF low THEN burn_proxy(acc.st, proxy)
                              ELSE acc.st,
                       healthy |-> acc.healthy + (IF low THEN 0 ELSE 1),
                       unhealthy |-> acc.unhealthy + (IF low THEN 1 ELSE 0),
                       burns |-> IF low THEN Append(acc.burns, proxy.url)
                                 ELSE acc.burns],
                      Tail(order), t)

\* one iteration of _health_monitor (lines 390-422)
RECURSIVE health_scan(_, _, _)
health_scan(acc, order, t) ==
  IF order = <<>> THEN acc
  ELSE LET data == acc.st.proxy[Head(order)]
       IN  IF data = None THEN health_scan(acc, Tail(order), t)
           ELSE LET proxy == from_dict(data[1])
                    score == health_score(proxy, t)
                    low   == ScoreBelow(score, UnhealthyBelow)
                    burn  == low /\ ScoreBelow(score, BurnBelow)
                IN  health_scan(
                      [st |-> IF burn THEN burn_proxy(acc.st, proxy)
                              ELSE acc.st,
                       healthy |-> acc.healthy + (IF low THEN 0 ELSE 1),
                       unhealthy |-> acc.unhealthy + (IF low THEN 1 ELSE 0),
                       burns |-> IF burn THEN Append(acc.burns, proxy.url)
                                 ELSE acc.burns],
                      Tail(order), t)

\* a monitor that always asks for the whole target pool
provision_target_full_pool(healthy_count) == <<TargetPool>>

\* lines 410-411: the targets of the _provision_proxies calls of an iteration
provision_target(healthy_count) ==
  IF healthy_count < MinHealthy THEN <<TargetPool - healthy_count>> ELSE <<>>

HealthMonitor ==
  /\ "health_monitor" \in service.tasks
  /\ \E order \in Orders(redis.active) :
       LET scan == health_scan([st |-> redis, healthy |-> 0, unhealthy |-> 0,
                                burns |-> <<>>], order, now)
           target == provision_target(scan.healthy)
           low  == target # <<>>
           st1  == IF low
                   THEN provision_proxies(scan.st, target[1], providers, now)
                   ELSE scan.st
       IN  /\ redis' = [st1 EXCEPT !.metrics_proxy_health =
                          <<[healthy |-> scan.healthy,
                             unhealthy |-> scan.unhealthy,
                             total |-> Cardinality(redis.active),
                             last_check |-> now]>>]
           /\ call' = [NoCall EXCEPT
                         !.op = "health_monitor",
                         !.active_before = redis.active,
                         !.provisioned = target,
                         !.reads = 1,
                         !.scanned = Loaded(redis, order, now),
                         !.burns = scan.burns,
                         !.healthy = scan.healthy,
                         !.unhealthy = scan.unhealthy]
           /\ UNCHANGED <<providers, held, cost_tracker, now, reports, service>>

\* the periodic worker task rotate_proxies (celery-worker.py 142-189)
\* failures / requests > 0.3, with the defaults 0 and 1 of a missing field
worker_failure_rate_high(data) ==
  LET failures == IF data = None THEN 0 ELSE data[1].failures
      requests == IF data = None THEN 1 ELSE data[1].requests
  IN  requests > 0 /\ failures * 10 > 3 * requests

RECURSIVE worker_scan(_, _)
worker_scan(acc, order) ==
  IF order = <<>> THEN acc
  ELSE LET proxy_url == Head(order)
           burn == worker_failure_rate_high(acc.st.proxy[proxy_url])
       IN  worker_scan(
             [st |-> IF burn
                     THEN [acc.st EXCEPT !.active = @ \ {proxy_url},
                                         !.burned = @ \cup {proxy_url}]
                     ELSE acc.st,
              healthy |-> acc.healthy + (IF burn THEN 0 ELSE 1),
              burns |-> IF burn THEN Append(acc.burns, proxy_url)
                        ELSE acc.burns],
             Tail(order))

RotateProxies ==
  \E order \in Orders(redis.active) :
    LET scan == worker_scan([st |-> redis, healthy |-> 0, burns |-> <<>>],
                            order)
    IN  /\ redis' = scan.st
        /\ call' = [NoCall EXCEPT
                      !.op = "rotate_proxies",
                      !.active_before = redis.active,
                      !.reads = 1,
                      !.burns = scan.burns,
                      !.healthy = scan.healthy]
        /\ UNCHANGED <<providers, held, cost_tracker, now, reports, service>>

\* one iteration of _cost_monitor (lines 431-466), amounts in the units of
\* calculate_cost; round(cost, 2) is the number of cents
RoundCents(units) ==
  (units + 5 * CostUnitsPerMilli) \div (10 * CostUnitsPerMilli)

\* a threshold that includes $5.00
cost_is_high_from_threshold(total_cost) ==
  total_cost >= CostAlertMilli * CostUnitsPerMilli

\* line 455: total_cost > 5.0
cost_is_high(total_cost) == total_cost > CostAlertMilli * CostUnitsPerMilli

CostAlert(total_cost, hourly_costs) ==
  [type |-> "alert", message |-> "High proxy costs", severity |-> "warning",
   total_cost |-> total_cost, breakdown |-> hourly_costs]

CostMonitor ==
  /\ "cost_monitor" \in service.tasks
  /\ LET entries == {n \in ProviderNames : cost_tracker[n] # NoEntry}
         hourly_costs == [n \in entries |-> RoundCents(cost_tracker[n])]
         total_cost == SumSeq([i \in 1..Len(ProviderOrder) |->
                                Cost(cost_tracker, ProviderOrder[i])])
         \* HSET sets the fields of the mapping and keeps the others; an
         \* empty mapping is refused and the loop logs the error
         old == redis.metrics_proxy_cost_breakdown
         breakdown == IF entries = {} THEN old
                      ELSE <<[n \in ProviderNames |->
                                IF n \in entries THEN hourly_costs[n]
                                ELSE IF old = None THEN NoEntry
                                ELSE old[1][n]]>>
         high == entries # {} /\ cost_is_high(total_cost)
     IN  /\ cost_tracker' = NoCosts
         /\ redis' = [redis EXCEPT
                        !.metrics_proxy_cost_today = @ + total_cost,
                        !.metrics_proxy_cost_breakdown = breakdown,
                        !.system_alerts =
                           IF high
                           THEN Append(@, CostAlert(total_cost, hourly_costs))
                           ELSE @]
         /\ call' = [NoCall EXCEPT !.op = "cost_monitor"]
  /\ UNCHANGED <<providers, held, now, reports, service>>

\* a scheduler that rotates from the fifteenth minute on
should_rotate_from_15(proxy, provs, t) ==
  /\ proxy.sticky_session_id # None
  /\ proxy.last_used # NoTime
  /\ t - proxy.last_used >= RotateAfterMinutes
  /\ proxy.provider \in provs

\* the conditions of lines 487-491
should_rotate(proxy, provs, t) ==
  /\ proxy.sticky_session_id # None
  /\ proxy.last_used # NoTime
  /\ t - proxy.last_used > RotateAfterMinutes
  /\ proxy.provider \in provs

\* one iteration of _rotation_scheduler (lines 475-494); rnd is the draw of
\* random.randint in rotate_ip
RECURSIVE rotation_scan(_, _, _, _, _)
rotation_scan(st, order, provs, t, rnd) ==
  IF order = <<>> THEN st
  ELSE LET data == st.proxy[Head(order)]
       IN  IF data = None THEN rotation_scan(st, Tail(order), provs, t, rnd)
           ELSE LET proxy == from_dict(data[1])
                    due == should_rotate(proxy, provs, t)
                IN  rotation_scan(
                      IF due THEN save_proxy(st, rotate_ip(proxy, t, rnd))
                      ELSE st,
                      Tail(order), provs, t, rnd)

RandomDraws == {1000, 9999}

RotationScheduler ==
  /\ "rotation_scheduler" \in service.tasks
  /\ \E order \in Orders(redis.active), rnd \in RandomDraws :
       /\ redis' = rotation_scan(redis, order, providers, now, rnd)
       /\ call' = [NoCall EXCEPT !.op = "rotation_scheduler",
                                 !.active_before = redis.active,
                                 !.reads = 1]
  /\ UNCHANGED <<providers, held, cost_tracker, now, reports, service>>

\* get_stats (lines 528-562)
get_stats(st, provs, t) ==
  LET scores == [u \in {v \in st.active : st.proxy[v] # None} |->
                   health_score(from_dict(st.proxy[u][1]), t)]
      excellent == {u \in DOMAIN scores : ~ScoreBelow(scores[u], 90)}
      good == {u \in DOMAIN scores \ excellent : ~ScoreBelow(scores[u], 70)}
      fair == {u \in DOMAIN scores \ (excellent \cup good) :
                 ~ScoreBelow(scores[u], 50)}
  IN  [active |-> Cardinality(st.active),
       burned |-> Cardinality(st.burned),
       providers |-> provs,
       cost_today |-> st.metrics_proxy_cost_today,
       health_breakdown |->
         [excellent |-> Cardinality(excellent),
          good |-> Cardinality(good),
          fair |-> Cardinality(fair),
          poor |-> Cardinality(DOMAIN scores) - Cardinality(excellent)
                     - Cardinality(good) - Cardinality(fair)]]

\* shutdown (lines 564-579): the final statistics are written, then the HTTP
\* client and the store client are closed; the three tasks are not
\* cancelled.  loop_ends: the caller is main (lines 630-643), which returns
\* at once and asyncio.run cancels the tasks left; otherwise the event loop
\* of the caller keeps running.
Shutdown(loop_ends) ==
  /\ service.redis_client = "open"
  /\ redis' = [redis EXCEPT !.proxy_manager_final_stats =
                              <<get_stats(redis, providers, now)>>]
  /\ service' = [tasks |-> IF loop_ends THEN {} ELSE service.tasks,
                 http_client |-> "closed", redis_client |-> "closed"]
  /\ call' = [NoCall EXCEPT !.op = "shutdown"]
  /\ UNCHANGED <<providers, held, cost_tracker, now, reports>>

\* get_stats called from outside (the store is only read)
GetStats ==
  /\ service.redis_client = "open"
  /\ call' = [NoCall EXCEPT !.op = "get_stats",
                            !.active_before = redis.active,
                            !.ret = <<get_stats(redis, providers, now)>>]
  /\ UNCHANGED <<providers, redis, held, cost_tracker, now, reports, service>>

\* an exception that is not caught ends the task
uncaught_ends_task(tasks, loop) == tasks \ {loop}

\* except Exception: logger.error(...) inside while True (lines 424-425,
\* 468-469, 496-497): the task goes on to its next sleep
caught_at_loop_boundary(tasks, loop) == tasks

\* an iteration of _health_monitor in which a store operation fails: the
\* SMEMBERS of line 390, or the HSET of the metrics (line 414) after the
\* scan, the burns and the provisioning
HealthMonitorStoreOps == {"smembers", "hset_metrics"}

HealthMonitorFailing(at) ==
  /\ "health_monitor" \in service.tasks
  /\ \E order \in Orders(redis.active) :
       LET scan == health_scan([st |-> redis, healthy |-> 0, unhealthy |-> 0,
                                burns |-> <<>>], order, now)
           low  == scan.healthy < MinHealthy
           st1  == IF low
                   THEN provision_proxies(scan.st, TargetPool - scan.healthy,
                                          providers, now)
                   ELSE scan.st
       IN  /\ redis' = IF at = "smembers" THEN redis ELSE st1
           /\ call' = [NoCall EXCEPT
                         !.op = "health_monitor",
                         !.active_before = redis.active,
                         !.burns = IF at = "smembers" THEN <<>>
                                   ELSE scan.burns,
                         !.failed = <<at>>]
  /\ service' = [service EXCEPT
                   !.tasks = caught_at_loop_boundary(@, "health_monitor")]
  /\ UNCHANGED <<providers, held, cost_tracker, now, reports>>

\* a provisioning that the first failing provider aborts
RECURSIVE provision_aborted_by(_, _, _, _, _)
provision_aborted_by(st, names, provs, per, t) ==
  IF names = <<>> THEN st
  ELSE IF Head(names) \notin provs
       THEN provision_aborted_by(st, Tail(names), provs, per, t)
       ELSE IF Head(names) = per.bad THEN st
            ELSE provision_aborted_by(
                   save_and_activate(st, get_proxies(Head(names), per.n, t)),
                   Tail(names), provs, per, t)

\* _provision_proxies when get_proxies of provider per.bad raises: the
\* except clause of lines 350-351 logs it and the loop goes on with the
\* next provider, each asked for per.n proxies
RECURSIVE provision_without(_, _, _, _, _)
provision_without(st, names, provs, per, t) ==
  IF names = <<>> THEN st
  ELSE provision_without(
         IF Head(names) \in provs /\ Head(names) # per.bad
         THEN save_and_activate(st, get_proxies(Head(names), per.n, t))
         ELSE st,
         Tail(names), provs, per, t)

\* an iteration of _health_monitor during whose provisioning get_proxies of
\* the registered provider bad raises
HealthMonitorAcquireFailing(bad) ==
  /\ "health_monitor" \in service.tasks
  /\ bad \in providers
  /\ \E order \in Orders(redis.active) :
       LET scan == health_scan([st |-> redis, healthy |-> 0, unhealthy |-> 0,
                                burns |-> <<>>], order, now)
           target == provision_target(scan.healthy)
           st1  == provision_without(
                     scan.st, ProviderOrder, providers,
                     [n |-> proxies_per_provider(target[1], providers),
                      bad |-> bad], now)
       IN  /\ target # <<>>
           /\ redis' = [st1 EXCEPT !.metrics_proxy_health =
                          <<[healthy |-> scan.healthy,
                             unhealthy |-> scan.unhealthy,
                             total |-> Cardinality(redis.active),
                             last_check |-> now]>>]
           /\ call' = [NoCall EXCEPT
                         !.op = "health_monitor",
                         !.active_before = redis.active,
                         !.provisioned = target,
                         !.reads = 1,
                         !.scanned = Loaded(redis, order, now),
                         !.burns = scan.burns,
                         !.healthy = scan.healthy,
                         !.unhealthy = scan.unhealthy,
                         !.failed = <<"get_proxies", bad>>]
           /\ UNCHANGED <<providers, held, cost_tracker, now, reports, service>>

\* an iteration of _cost_monitor in which a store operation fails: the GET
\* of line 443, the SET of 447, the HSET of 448 or the PUBLISH of 456.  The
\* ledger was cleared at line 440, before the first of them.
CostMonitorStoreOps == {"get", "set", "hset", "publish"}

CostMonitorFailing(at) ==
  /\ "cost_monitor" \in service.tasks
  /\ LET entries == {n \in ProviderNames : cost_tracker[n] # NoEntry}
         hourly_costs == [n \in entries |-> RoundCents(cost_tracker[n])]
         total_cost == SumSeq([i \in 1..Len(ProviderOrder) |->
                                Cost(cost_tracker, ProviderOrder[i])])
         old == redis.metrics_proxy_cost_breakdown
         breakdown == IF entries = {} THEN old
                      ELSE <<[n \in ProviderNames |->
                                IF n \in entries THEN hourly_costs[n]
                                ELSE IF old = None THEN NoEntry
                                ELSE old[1][n]]>>
         high == entries # {} /\ cost_is_high(total_cost)
     IN  \* the PUBLISH is reached only when the total is high
         /\ at = "publish" => high
         /\ cost_tracker' = NoCosts
         /\ redis' = [redis EXCEPT
                        !.metrics_proxy_cost_today =
                           IF at \in {"hset", "publish"} THEN @ + total_cost
                           ELSE @,
                        !.metrics_proxy_cost_breakdown =
                           IF at = "publish" THEN breakdown ELSE @]
         /\ call' = [NoCall EXCEPT !.op = "cost_monitor", !.failed = <<at>>]
  /\ service' = [service EXCEPT
                   !.tasks = caught_at_loop_boundary(@, "cost_monitor")]
  /\ UNCHANGED <<providers, held, now, reports>>

\* an iteration of _rotation_scheduler in which the SMEMBERS of line 477
\* fails, or rotate_ip or the HSET of _save_proxy for the first proxy that
\* is due: nothing is written and the rest of the scan is skipped
RotationSchedulerOps == {"smembers", "rotate_ip", "hset"}

RECURSIVE rotation_due(_, _, _, _)
rotation_due(st, order, provs, t) ==
  IF order = <<>> THEN FALSE
  ELSE LET data == st.proxy[Head(order)]
       IN  \/ /\ data # None
              /\ should_rotate(from_dict(data[1]), provs, t)
           \/ rotation_due(st, Tail(order), provs, t)

RotationSchedulerFailing(at) ==
  /\ "rotation_scheduler" \in service.tasks
  /\ at # "smembers" =>
       \E order \in Orders(redis.active) :
         rotation_due(redis, order, providers, now)
  /\ call' = [NoCall EXCEPT !.op = "rotation_scheduler",
                            !.active_before = redis.active,
                            !.failed = <<at>>]
  /\ service' = [service EXCEPT
                   !.tasks = caught_at_loop_boundary(@, "rotation_scheduler")]
  /\ UNCHANGED <<providers, redis, held, cost_tracker, now, reports>>

\* EXPIRE: the store deletes a key whose retention window has run out
KeyExpires(u) ==
  /\ redis.expire[u] # 0
  /\ redis.proxy[u] # None
  /\ redis' = [redis EXCEPT !.proxy[u] = None, !.expire[u] = 0]
  /\ call' = [NoCall EXCEPT !.op = "expired"]
  /\ UNCHANGED <<providers, held, cost_tracker, now, reports, service>>

\* the clock advances
Tick ==
  /\ now + TickStep <= MaxNow
  /\ now' = now + TickStep
  /\ call' = [NoCall EXCEPT !.op = "tick"]
  /\ UNCHANGED <<providers, redis, held, cost_tracker, reports, service>>

\* Proxy.health_score read on the proxy objects the callers hold
HealthScores ==
  /\ \A c \in Callers : held[c] # None
  /\ call' = [op |-> "health_score",
              scores |-> [c \in Callers |-> health_score(held[c][1], now)]]
  /\ UNCHANGED <<providers, redis, held, cost_tracker, now, reports, service>>

\* Proxy objects for the score function: counters with
\* requests = success + failures, the response times kept, the last use
ScoreCounters == {<<r, f>> \in (0..2) \X (0..2) : f <= r}
ScoreSamples == {<<>>, <<0>>, <<100>>, <<1500>>, <<3100, 100>>}
ScoreLastUsed == {NoTime, 0}
ScoreObjects(p) ==
  { [p EXCEPT !.requests = k[1], !.failures = k[2], !.success = k[1] - k[2],
              !.response_times = times, !.last_used = last]
    : k \in ScoreCounters, times \in ScoreSamples, last \in ScoreLastUsed }

\* a proxy of the third type of line 51, which neither provider issues, as a
\* caller of report_usage may build it
DatacenterProxy ==
  Proxy(BrightDataUrl, "bright_data", "datacenter", "us", None, None)
CostObjects == {BrightDataProxy(0, 0), OxylabsProxy(0, 0), DatacenterProxy}
\* bandwidth_mb: nothing, half a GB, two GB
Bandwidths == {0, 512, 2048}

\* the inputs drawn by the callers
\* the defaults, and one requirement made specific at a time
RequirementSets ==
  { Requirements("any", "any", DefaultMinHealthScore),
    Requirements("isp", "any", DefaultMinHealthScore),
    Requirements("any", "eu", DefaultMinHealthScore),
    Requirements("any", "any", 100) }
\* a fast success or a timeout
Outcomes == {<<TRUE, 100, None>>, <<FALSE, 1500, <<"timeout">>>>}

Caller ==
  \/ \E c \in OneCaller, req \in RequirementSets : GetProxy(c, req)
  \/ \E c \in OneCaller, o \in Outcomes : ReportUsage(c, o[1], o[2], 0, o[3])

\* The pool in use: one caller, the health monitor and the worker task.
Next ==
  \/ Caller
  \/ HealthMonitor
  \/ RotateProxies

Spec == Init /\ [][Next]_vars

\* A caller using a proxy whose response-time buffer is full.
InitBuffer ==
  /\ providers = ProviderNames
  /\ redis \in BufferStores
  /\ held = [c \in Callers |-> None]
  /\ cost_tracker = NoCosts
  /\ now = 0
  /\ reports = 0
  /\ service = Started
  /\ call = NoCall

NextBuffer ==
  \/ Caller
  \/ HealthMonitor

SpecBuffer == InitBuffer /\ [][NextBuffer]_vars

\* The pool in use while the clock advances and retention windows run out.
NextTimed ==
  \/ Next
  \/ Tick
  \/ \E u \in Urls : KeyExpires(u)

SpecTimed == Init /\ [][NextTimed]_vars

\* Callers asking for proxies while the clock advances.
InitClock ==
  /\ providers = ProviderNames
  /\ redis \in InitialStores
  /\ held = [c \in Callers |-> None]
  /\ cost_tracker = NoCosts
  /\ now = 0
  /\ reports = 0
  /\ service = Started
  /\ call = NoCall

NextClock ==
  \/ \E c \in Callers, req \in RequirementSets : GetProxy(c, req)
  \/ HealthMonitor
  \/ Tick

SpecClock == InitClock /\ [][NextClock]_vars

\* The health score of two proxy objects, read as the clock advances.
InitHealth ==
  /\ providers = ProviderNames
  /\ redis = EmptyStore
  /\ held \in [Callers -> {<<p>> : p \in ScoreObjects(BrightDataProxy(0, 0))
                                       \cup ScoreObjects(OxylabsProxy(0, 0))}]
  /\ held["c1"][1].provider = "bright_data"
  /\ held["c2"][1].provider = "oxylabs"
  /\ cost_tracker = NoCosts
  /\ now = 0
  /\ reports = 0
  /\ service = Started
  /\ call = NoCall

NextHealth ==
  \/ HealthScores
  \/ Tick

SpecHealth == InitHealth /\ [][NextHealth]_vars

\* Two callers reporting usage with bandwidth on the proxies they hold.
InitCost ==
  /\ providers = ProviderNames
  /\ redis = StoreInUse(BrightDataProxy(0, 0), OxylabsProxy(0, 0))
  /\ held \in [Callers -> {<<p>> : p \in CostObjects}]
  /\ cost_tracker = NoCosts
  /\ now = 0
  /\ reports = 0
  /\ service = Started
  /\ call = NoCall

NextCost ==
  \E c \in Callers, o \in Outcomes, b \in Bandwidths :
    ReportUsage(c, o[1], o[2], b, o[3])

SpecCost == InitCost /\ [][NextCost]_vars

\* A caller whose requests meet a failing store operation.
CallerFailing ==
  \/ \E c \in OneCaller, req \in RequirementSets, at \in GetProxyStoreOps :
       GetProxyFailing(c, req, at)
  \/ \E c \in OneCaller, o \in Outcomes, at \in ReportUsageStoreOps :
       ReportUsageFailing(c, o[1], o[2], 0, o[3], at)

NextFaults ==
  \/ Caller
  \/ CallerFailing

SpecFaults == Init /\ [][NextFaults]_vars

\* Two callers sharing the pool with the rotation scheduler.
DefaultRequirements == {Requirements("any", "any", DefaultMinHealthScore)}

NextShared ==
  \/ \E c \in Callers, req \in DefaultRequirements : GetProxy(c, req)
  \/ \E c \in Callers, o \in Outcomes : ReportUsage(c, o[1], o[2], 0, o[3])
  \/ RotationScheduler
  \/ Tick

InitShared ==
  /\ providers = ProviderNames
  /\ redis = StoreInUse(Used(BrightDataProxy(0, 4), 10, 4, Repeat(100, 10)),
                        Used(OxylabsProxy(0, 4), 20, 6, Repeat(100, 20)))
  /\ held = [c \in Callers |-> None]
  /\ cost_tracker = NoCosts
  /\ now = 0
  /\ reports = 0
  /\ service = Started
  /\ call = NoCall

SpecShared == InitShared /\ [][NextShared]_vars

\* The manager from start to shutdown: the three loops and the clock.
InitLife ==
  /\ providers = ProviderNames
  /\ redis \in InitialStores
  /\ held = [c \in Callers |-> None]
  /\ cost_tracker = NoCosts
  /\ now = 0
  /\ reports = 0
  /\ service = Started
  /\ call = NoCall

NextLife ==
  \/ HealthMonitor
  \/ CostMonitor
  \/ RotationScheduler
  \/ \E loop_ends \in BOOLEAN : Shutdown(loop_ends)
  \/ Tick

SpecLife == InitLife /\ [][NextLife]_vars

\* The health monitor over pools whose scores fall on both sides of its two
\* thresholds as the clock advances, and over records whose retention ran out.
MonitorStores ==
  { \* 60 and 30 when just used; exactly 50 and exactly 20 an hour later
    StoreInUse(Used(BrightDataProxy(0, 4), 10, 5, Repeat(500, 10)),
               Used(OxylabsProxy(0, 4), 10, 10, Repeat(500, 10))),
    \* 54 and 10 when just used; 49 and 5 half an hour later
    StoreInUse(Used(BrightDataProxy(0, 4), 10, 6, Repeat(500, 10)),
               Used(OxylabsProxy(0, 4), 5, 5, Repeat(1500, 5))) }

InitMonitor ==
  /\ providers \in ProviderSubsets
  /\ redis \in MonitorStores
  /\ held = [c \in Callers |-> None]
  /\ cost_tracker = NoCosts
  /\ now = 0
  /\ reports = 0
  /\ service = Started
  /\ call = NoCall

NextMonitor ==
  \/ HealthMonitor
  \/ \E u \in Urls : KeyExpires(u)
  \/ Tick

SpecMonitor == InitMonitor /\ [][NextMonitor]_vars

\* Callers reporting usage with bandwidth while the cost monitor runs, with
\* cycles in which a store operation fails.
\* bandwidth_mb: nothing, two GB, ten GB (ten GB of datacenter traffic cost
\* exactly $5.00)
LedgerBandwidths == {0, 2048, 10240}

NextLedger ==
  \/ \E c \in Callers, b \in LedgerBandwidths : ReportUsage(c, TRUE, 100, b, None)
  \/ CostMonitor
  \/ \E at \in CostMonitorStoreOps : CostMonitorFailing(at)

SpecLedger == InitCost /\ [][NextLedger]_vars

\* The rotation scheduler over pools in use, used a quarter of an hour ago
\* or never, with and without registered providers.
RotationStores ==
  { StoreInUse(Used(BrightDataProxy(0, 4), 10, 4, Repeat(100, 10)),
               Used(OxylabsProxy(0, 4), 20, 6, Repeat(100, 20))),
    StoreInUse(BrightDataProxy(0, 4), OxylabsProxy(0, 4)) }

InitRotation ==
  /\ providers \in ProviderSets
  /\ redis \in RotationStores
  /\ held = [c \in Callers |-> None]
  /\ cost_tracker = NoCosts
  /\ now = RotateAfterMinutes
  /\ reports = 0
  /\ service = Started
  /\ call = NoCall

NextRotation ==
  \/ \E c \in OneCaller, req \in DefaultRequirements : GetProxy(c, req)
  \/ RotationScheduler
  \/ \E at \in RotationSchedulerOps : RotationSchedulerFailing(at)
  \/ Tick

SpecRotation == InitRotation /\ [][NextRotation]_vars

\* The two providers called directly: callers acquire batches with
\* get_proxies and rotate the first proxy of the batch they hold.  The
\* clock is read at the resolution of the model: two calls between two
\* ticks read the same int(time.time()).
AcquireCounts == {1, 2}
\* random.randint(100, 999) of OxylabsProvider.rotate_ip
OxylabsDraws == {100, 999}
Draws(provider) ==
  IF provider = "bright_data" THEN RandomDraws ELSE OxylabsDraws

\* provider.get_proxies(count), the caller keeps the list
Acquire(c, provider, count) ==
  /\ provider \in providers
  /\ held' = [held EXCEPT ![c] = get_proxies(provider, count, now)]
  /\ call' = [NoCall EXCEPT !.op = "get_proxies", !.caller = c,
                            !.args = <<[provider |-> provider,
                                        count |-> count]>>]
  /\ UNCHANGED <<providers, redis, cost_tracker, now, reports, service>>

\* provider.rotate_ip(proxy) on the first proxy the caller holds; the object
\* is changed in place and returned
RotateIp(c, rnd) ==
  /\ held[c] # None
  /\ held[c][1].provider \in providers
  /\ rnd \in Draws(held[c][1].provider)
  /\ LET rotated == rotate_ip(held[c][1], now, rnd)
     IN  /\ held' = [held EXCEPT ![c][1] = rotated]
         /\ call' = [NoCall EXCEPT !.op = "rotate_ip", !.caller = c,
                                   !.args = <<held[c][1]>>,
                                   !.ret = <<rotated>>]
  /\ UNCHANGED <<providers, redis, cost_tracker, now, reports, service>>

InitProviders ==
  /\ providers = ProviderNames
  /\ redis = EmptyStore
  /\ held = [c \in Callers |-> None]
  /\ cost_tracker = NoCosts
  /\ now = 0
  /\ reports = 0
  /\ service = Started
  /\ call = NoCall

NextProviders ==
  \/ \E c \in Callers, n \in ProviderNames, count \in AcquireCounts :
       Acquire(c, n, count)
  \/ \E c \in Callers, rnd \in RandomDraws \cup OxylabsDraws : RotateIp(c, rnd)
  \/ Tick

SpecProviders == InitProviders /\ [][NextProviders]_vars

\* Callers acquiring batches only: every proxy held is as get_proxies
\* returned it.
NextAcquire ==
  \/ \E c \in Callers, n \in ProviderNames, count \in AcquireCounts :
       Acquire(c, n, count)
  \/ Tick

SpecAcquire == InitProviders /\ [][NextAcquire]_vars

\* The health monitor with iterations in which one provider's acquisition
\* fails.
NextAcquireFaults ==
  \/ HealthMonitor
  \/ \E bad \in ProviderNames : HealthMonitorAcquireFailing(bad)
  \/ \E u \in Urls : KeyExpires(u)
  \/ Tick

SpecAcquireFaults == InitMonitor /\ [][NextAcquireFaults]_vars

\* Every scan of the active set, over pools in which burned proxies are
\* provisioned again and retention windows run out.
NextScans ==
  \/ \E c \in OneCaller, req \in DefaultRequirements : GetProxy(c, req)
  \/ HealthMonitor
  \/ RotationScheduler
  \/ GetStats
  \/ RotateProxies
  \/ \E u \in Urls : KeyExpires(u)
  \/ Tick

InitScans ==
  /\ providers = ProviderNames
  /\ redis \in MonitorStores
  /\ held = [c \in Callers |-> None]
  /\ cost_tracker = NoCosts
  /\ now = 0
  /\ reports = 0
  /\ service = Started
  /\ call = NoCall

SpecScans == InitScans /\ [][NextScans]_vars

\* Requests made through the proxied client.
\* the outbound request: completed in 100 ms, answered with an error status
\* in 100 ms, or timed out
HttpOutcomes == {<<"ok", 100>>, <<"status", 100>>, <<"exception", 1500>>}
\* len(response.content), in MB
ContentSizes == {0, 1}

\* proxy_requirements: the defaults, or a location no provider serves
ClientRequirements ==
  { Requirements("any", "any", DefaultMinHealthScore),
    Requirements("any", "eu", DefaultMinHealthScore) }

NextClient ==
  \/ \E req \in ClientRequirements, o \in HttpOutcomes, mb \in ContentSizes :
       ClientRequest(req, o[1], o[2], mb)
  \/ HealthMonitor

SpecClient == Init /\ [][NextClient]_vars

\* The three loops with iterations in which an operation fails.
LoopsFailing ==
  \/ \E at \in HealthMonitorStoreOps : HealthMonitorFailing(at)
  \/ \E at \in CostMonitorStoreOps \ {"publish"} : CostMonitorFailing(at)
  \/ \E at \in RotationSchedulerOps : RotationSchedulerFailing(at)

NextLoops ==
  \/ HealthMonitor
  \/ CostMonitor
  \/ RotationScheduler
  \/ LoopsFailing
  \/ Tick

SpecLoops == InitLife /\ [][NextLoops]_vars


\* ------------------------------------------------------------- properties
HeldProxies == {held[c][1] : c \in {k \in Callers : held[k] # None}}
StoredProxies == {redis.proxy[u][1] : u \in {v \in Urls : redis.proxy[v] # None}}

\* C1: requests == successes + failures in every proxy object a caller
\* reports on and in every record the store holds.
C1_RequestsBalance ==
  \A p \in HeldProxies \cup StoredProxies : p.requests = p.success + p.failures

\* the second report on a proxy that started at 0/0/0, one success and one
\* failure, and the record that report persisted
C1_Witness ==
  /\ call.op = "report_usage"
  /\ held["c1"] # None
  /\ held["c1"][1].requests = 2
  /\ held["c1"][1].success = 1
  /\ held["c1"][1].failures = 1
  /\ redis.proxy[held["c1"][1].url] = held["c1"]

\* the burn policy of the specification: failures / requests > 0.30 and
\* requests > 10
OverBurnThreshold(p) == p.failures * 10 > 3 * p.requests /\ p.requests > 10

\* C2: when report_usage returns for a proxy whose updated stats are over the
\* burn threshold, its identifier is in the burned set and not in the active
\* set.
C2_BurnedAfterReport ==
  call.op = "report_usage" =>
    LET p == held[call.caller][1]
    IN  OverBurnThreshold(p) =>
          p.url \in redis.burned /\ p.url \notin redis.active

\* a report that took an active proxy over the threshold
C2_Witness ==
  /\ call.op = "report_usage"
  /\ OverBurnThreshold(held[call.caller][1])
  /\ held[call.caller][1].url \in call.active_before

\* what the requirements ask of a scanned proxy
Survives(e, req) ==
  /\ ~(e.score[1] < req.min_health_score * e.score[2])
  /\ (req.type = "any" \/ e.proxy_type = req.type)
  /\ (req.location = "any" \/ e.location = req.location)

Survivors(cl) ==
  {i \in DOMAIN cl.scanned : Survives(cl.scanned[i], cl.req[1])}

\* C3: get_proxy never returns a proxy whose health score is below
\* min_health_score, or whose type or location differs from a specific
\* (non-"any") requirement.
C3_ReturnedMeetsRequirements ==
  (call.op = "get_proxy" /\ call.ret # None) =>
    /\ \E i \in DOMAIN call.scanned :
         /\ call.scanned[i].url = call.ret[1]
         /\ Survives(call.scanned[i], call.req[1])
    /\ LET p == held[call.caller][1]
           req == call.req[1]
       IN  /\ p.url = call.ret[1]
           /\ (req.type # "any" => p.proxy_type = req.type)
           /\ (req.location # "any" => p.location = req.location)

\* a call that returned a proxy of the requested type after rejecting another
\* one, and a call that rejected a proxy for its health score
C3_Witness ==
  /\ call.op = "get_proxy"
  /\ call.ret # None
  /\ Len(call.scanned) = 2
  /\ Cardinality(Survivors(call)) = 1
  /\ \/ call.req[1].type = "isp"
     \/ \E i \in DOMAIN call.scanned :
          call.scanned[i].score[1] < call.req[1].min_health_score
                                       * call.scanned[i].score[2]

\* C4: no identifier is in both proxies:active and proxies:burned.
C4_ActiveBurnedDisjoint == redis.active \cap redis.burned = {}

\* C5: get_proxy never returns a proxy whose identifier is in the burned set.
C5_NeverReturnsBurned ==
  (call.op = "get_proxy" /\ call.ret # None) => call.ret[1] \notin redis.burned

BurnAlertsFor(u) ==
  {i \in DOMAIN redis.system_alerts :
     /\ redis.system_alerts[i].message = "Proxy burned"
     /\ redis.system_alerts[i].proxy_url = u}

\* C6: at most one burn alert is published on system_alerts for a given
\* proxy.
C6_AtMostOneBurnAlert ==
  \A u \in Urls : Cardinality(BurnAlertsFor(u)) <= 1

\* C7: the response-time buffer never holds more than 100 entries, in a proxy
\* object or in a persisted record.
C7_BufferBounded ==
  \A p \in HeldProxies \cup StoredProxies : Len(p.response_times) <= 100

\* C8: when a scanned proxy passes the filters, get_proxy returns one whose
\* score is the maximum over the survivors, the first such in scan order.
C8_ReturnsFirstMaximum ==
  call.op = "get_proxy" =>
    LET S == Survivors(call)
    IN  S # {} =>
          \E i \in S :
            /\ call.ret = <<call.scanned[i].url>>
            /\ \A j \in S :
                 /\ ~ScoreLess(call.scanned[i].score, call.scanned[j].score)
                 /\ j < i => ScoreLess(call.scanned[j].score,
                                       call.scanned[i].score)

\* two survivors, the better one scanned second and returned
C8_Witness ==
  /\ call.op = "get_proxy"
  /\ Len(call.scanned) = 2
  /\ Survivors(call) = {1, 2}
  /\ ScoreLess(call.scanned[1].score, call.scanned[2].score)
  /\ call.ret = <<call.scanned[2].url>>

\* C9 as claimed: when no scanned proxy passes the filters, get_proxy returns
\* None and modifies no per-proxy record.
C9_NoRecordModified ==
  [][ (call'.op = "get_proxy" /\ Survivors(call') = {}) =>
        (call'.ret = None /\ redis'.proxy = redis.proxy) ]_vars

Unused(data) ==
  data # None /\ data[1].requests = 0 /\ data[1].last_used = NoTime

\* C9 amended: when no scanned proxy passes the filters, get_proxy returns
\* None and stamps no last_used; it leaves every per-proxy record as it was,
\* except that a call which found the active set empty has written the
\* records of the proxies it provisioned.
C9_OnlyProvisioningWrites ==
  [][ (call'.op = "get_proxy" /\ Survivors(call') = {}) =>
        /\ call'.ret = None
        /\ held'[call'.caller] = None
        /\ \A u \in Urls :
             \/ redis'.proxy[u] = redis.proxy[u]
             \/ redis.active = {} /\ Unused(redis'.proxy[u]) ]_vars

\* a call on a non-empty pool that scanned records and returned None
C9_Witness ==
  /\ call.op = "get_proxy"
  /\ call.ret = None
  /\ call.active_before # {}
  /\ call.scanned # <<>>
  /\ Survivors(call) = {}

\* C10: a get_proxy call that finds the active set empty provisions exactly
\* once, for 10 proxies, and reads the active set once more; a call that
\* finds it non-empty provisions nothing.
C10_ProvisionsOnlyWhenEmpty ==
  call.op = "get_proxy" =>
    /\ call.active_before = {} => call.provisioned = <<10>> /\ call.reads = 2
    /\ call.active_before # {} => call.provisioned = <<>> /\ call.reads = 1

\* a call on an empty pool that provisioned and then returned a proxy
C10_Witness ==
  /\ call.op = "get_proxy"
  /\ call.active_before = {}
  /\ call.provisioned = <<10>>
  /\ call.ret # None
  /\ redis.active = Urls

\* C11: when get_proxy returns a proxy, the object returned carries
\* last_used = the clock reading of the call, and the record proxy:<url> in
\* the store is already the mapping of that object, so the persisted
\* last_used is not older than the call.
C11_StampedAndPersisted ==
  (call.op = "get_proxy" /\ call.ret # None) =>
    LET p == held[call.caller][1]
    IN  /\ p.url = call.ret[1]
        /\ p.last_used = now
        /\ redis.proxy[p.url] # None
        /\ redis.proxy[p.url][1].last_used = now
        /\ redis.proxy[p.url] = <<to_dict(p)>>

\* a call made after the clock moved, returning a proxy with reports on it
\* (its record was last stamped at 0)
C11_Witness ==
  /\ call.op = "get_proxy"
  /\ call.ret # None
  /\ now > 0
  /\ call.active_before # {}
  /\ redis.proxy[call.ret[1]][1].requests > 0
  /\ redis.proxy[call.ret[1]][1].last_used = now

\* rational arithmetic on <<numerator, denominator>>, denominators > 0
FracAdd(a, b) == <<a[1] * b[2] + b[1] * a[2], a[2] * b[2]>>
FracEq(a, b) == a[1] * b[2] = b[1] * a[2]
FracMin(a, b) == IF a[1] * b[2] <= b[1] * a[2] THEN a ELSE b
FracMax(a, b) == IF a[1] * b[2] >= b[1] * a[2] THEN a ELSE b

\* the three components of the specification, for requests > 0
\* S = (successes / requests) * 60
SuccessComponent(p) == <<p.success * 60, p.requests>>
\* L = max(0, 30 - avgResponseTimeMS / 50), 30 when no samples are retained
Retained(p) == LastN(p.response_times, 100)
LatencyComponent(p) ==
  IF Retained(p) = <<>> THEN <<30, 1>>
  ELSE FracMax(<<0, 1>>,
               <<30 * 50 * Len(Retained(p)) - SumSeq(Retained(p)),
                 50 * Len(Retained(p))>>)
\* R = max(0, 10 - minutesSinceLastUse / 6), 10 when never used
RecencyComponent(p, t) ==
  IF p.last_used = NoTime THEN <<10, 1>>
  ELSE FracMax(<<0, 1>>, <<10 * 6 - (t - p.last_used), 6>>)

AverageAtLeast(p, ms) ==
  Retained(p) # <<>> /\ SumSeq(Retained(p)) >= ms * Len(Retained(p))

C13_ScoreInRange ==
  call.op = "health_score" =>
    \A c \in Callers :
      /\ call.scores[c][2] > 0
      /\ 0 <= call.scores[c][1]
      /\ call.scores[c][1] <= 100 * call.scores[c][2]

\* both ends of the range: a proxy that always failed, slower than 1500 ms on
\* average and last used 60 minutes ago, scores 0; one that always
\* succeeded, with samples of 0 ms and never stamped, scores 100
C13_Witness ==
  /\ call.op = "health_score"
  /\ held["c1"][1].requests = 2
  /\ held["c1"][1].failures = 2
  /\ held["c1"][1].response_times = <<3100, 100>>
  /\ held["c1"][1].last_used = 0
  /\ now = 60
  /\ call.scores["c1"][1] = 0
  /\ held["c2"][1].requests = 1
  /\ held["c2"][1].success = 1
  /\ held["c2"][1].response_times = <<0>>
  /\ call.scores["c2"][1] = 100 * call.scores["c2"][2]

\* C14: of two proxies with the same requests > 0, the same response times
\* and the same last use, the one with more failures and fewer successes has
\* the strictly lower health score.
C14_MoreFailuresLowerScore ==
  call.op = "health_score" =>
    \A a, b \in Callers :
      LET p == held[a][1]
          q == held[b][1]
      IN  ( /\ p.requests = q.requests
            /\ p.requests > 0
            /\ p.response_times = q.response_times
            /\ p.last_used = q.last_used
            /\ p.failures > q.failures
            /\ p.success < q.success )
          => ScoreLess(call.scores[a], call.scores[b])

\* two proxies alike but for one failure more, both at the best latency and
\* recency the formula allows; and the scores read differ
C14_Witness ==
  /\ call.op = "health_score"
  /\ held["c1"][1].requests = 2
  /\ held["c2"][1].requests = 2
  /\ held["c1"][1].failures = 1
  /\ held["c2"][1].failures = 0
  /\ held["c1"][1].response_times = <<0>>
  /\ held["c2"][1].response_times = <<0>>
  /\ held["c1"][1].last_used = NoTime
  /\ held["c2"][1].last_used = NoTime
  /\ ScoreLess(call.scores["c1"], call.scores["c2"])
  /\ call.scores["c2"][1] = 100 * call.scores["c2"][2]

\* the rates of the specification, in thousandths of a dollar per GB
ClaimedRate(proxy_type) ==
  CASE proxy_type = "residential" -> 15000
    [] proxy_type = "isp"         -> 3000
    [] proxy_type = "datacenter"  -> 500

\* (bandwidthMB / 1024) * rate, plus 0.001 for residential, in units of
\* 1/1024 of a thousandth of a dollar
ClaimedCharge(proxy_type, bandwidth_mb) ==
  bandwidth_mb * ClaimedRate(proxy_type)
    + (IF proxy_type = "residential" THEN 1 * 1024 ELSE 0)

\* C15: a report_usage call adds (bandwidthMB / 1024) * rate, plus 0.001 for
\* a residential proxy, to the ledger entry of the proxy's provider, and
\* leaves the entries of the other providers unchanged; 2048 MB on a
\* residential proxy accrue 30.001.
C15_LedgerCharge ==
  [][ call'.op = "report_usage" =>
        LET before == held[call'.caller][1]
            after  == held'[call'.caller][1]
            mb     == after.total_bandwidth_mb - before.total_bandwidth_mb
            charged == Cost(cost_tracker', after.provider)
                         - Cost(cost_tracker, after.provider)
        IN  /\ cost_tracker'[after.provider] # NoEntry
            /\ charged = ClaimedCharge(after.proxy_type, mb)
            /\ (after.proxy_type = "residential" /\ mb = 2048) =>
                 charged = 30001 * 1024
            /\ \A n \in ProviderNames \ {after.provider} :
                 cost_tracker'[n] = cost_tracker[n] ]_vars

\* the ledger after half a GB on an ISP proxy (1.50) and then 2048 MB in one
\* request on a residential proxy (30.001)
C15_Witness ==
  /\ call.op = "report_usage"
  /\ reports = 2
  /\ held[call.caller][1].proxy_type = "residential"
  /\ held[call.caller][1].requests = 1
  /\ held[call.caller][1].total_bandwidth_mb = 2048
  /\ cost_tracker["oxylabs"] = 30001 * 1024
  /\ cost_tracker["bright_data"] = 1500 * 1024

\* C16: once shutdown has completed (both clients closed), the final
\* statistics are in the store and no iteration of the health monitor, the
\* cost monitor or the rotation scheduler takes place.
C16_LoopsStoppedAfterShutdown ==
  service.redis_client = "closed" =>
    /\ service.http_client = "closed"
    /\ redis.proxy_manager_final_stats # None
    /\ call.op \notin Loops

\* C17: a get_proxy or report_usage call during which a store operation
\* failed ends with the error raised to its caller.
C17_StoreFailureSurfaced ==
  (call.op \in {"get_proxy", "report_usage"} /\ call.failed # None) =>
    call.raised

\* C18: no step lowers the requests, success or failures counter of a
\* record that the store holds before and after the step.
C18_CountersMonotonic ==
  [][ \A u \in Urls :
        (redis.proxy[u] # None /\ redis'.proxy[u] # None) =>
          /\ redis'.proxy[u][1].requests >= redis.proxy[u][1].requests
          /\ redis'.proxy[u][1].success >= redis.proxy[u][1].success
          /\ redis'.proxy[u][1].failures >= redis.proxy[u][1].failures ]_vars

\* C19: one report_usage call adds 1 to requests and to exactly one of
\* success (success true) and failures (false), appends one response time,
\* adds bandwidth_mb to total_bandwidth_mb and sets last_error only when
\* success is false; url, provider, proxy_type, location, the credentials and
\* last_used keep their values; the record written is that object's mapping.
C19_ReportFrame ==
  [][ call'.op = "report_usage" =>
        LET before == held[call'.caller][1]
            after  == held'[call'.caller][1]
            args   == call'.args[1]
        IN  /\ after.requests = before.requests + 1
            /\ after.success = before.success + (IF args.success THEN 1 ELSE 0)
            /\ after.failures = before.failures
                                  + (IF args.success THEN 0 ELSE 1)
            /\ after.response_times
                 = Append(before.response_times, args.response_time)
            /\ after.total_bandwidth_mb
                 = before.total_bandwidth_mb + args.bandwidth_mb
            /\ after.last_error = IF args.success THEN before.last_error
                                  ELSE args.error
            /\ after.url = before.url
            /\ after.provider = before.provider
            /\ after.proxy_type = before.proxy_type
            /\ after.location = before.location
            /\ after.username = before.username
            /\ after.password = before.password
            /\ after.sticky_session_id = before.sticky_session_id
            /\ after.last_used = before.last_used
            /\ redis'.proxy[after.url] = <<to_dict(after)>>
            /\ \A c \in Callers \ {call'.caller} : held'[c] = held[c] ]_vars

\* a success reported after a failure on the same object, each with
\* bandwidth: the error of the failure is still there
C19_Witness ==
  /\ call.op = "report_usage"
  /\ call.args[1].success
  /\ call.args[1].bandwidth_mb = 512
  /\ held[call.caller][1].requests = 2
  /\ held[call.caller][1].success = 1
  /\ held[call.caller][1].failures = 1
  /\ held[call.caller][1].last_error = <<"timeout">>
  /\ held[call.caller][1].response_times = <<1500, 100>>
  /\ held[call.caller][1].total_bandwidth_mb = 2048 + 512

\* C20: when _burn_proxy has completed on an active proxy, its identifier is
\* not in the active set and is in the burned set, its record has an expiry
\* of 86400 seconds, and exactly one alert, of severity "warning" and naming
\* the proxy's url, has been published on system_alerts.
C20_BurnEffects ==
  [][ (call'.op = "report_usage" /\ call'.burns # <<>>) =>
        LET u == call'.burns[1]
        IN  u \in redis.active =>
              /\ u \notin redis'.active
              /\ u \in redis'.burned
              /\ redis'.proxy[u] # None
              /\ redis'.expire[u] = 86400
              /\ Len(redis'.system_alerts) = Len(redis.system_alerts) + 1
              /\ redis'.system_alerts[Len(redis'.system_alerts)].severity
                   = "warning"
              /\ redis'.system_alerts[Len(redis'.system_alerts)].proxy_url = u
              /\ SubSeq(redis'.system_alerts, 1, Len(redis.system_alerts))
                   = redis.system_alerts ]_vars

\* a report whose burn took an active proxy, with no expiry yet, out of the
\* pool
C20_Witness ==
  /\ call.op = "report_usage"
  /\ call.burns # <<>>
  /\ call.burns[1] \in call.active_before
  /\ call.burns[1] \notin redis.active
  /\ call.burns[1] \in redis.burned
  /\ redis.expire[call.burns[1]] = 86400
  /\ Len(redis.system_alerts) = 1

\* C21: _burn_proxy on a proxy whose identifier is already in the burned
\* set raises no error and leaves the identifier burned and not active, and
\* the membership of every other identifier as it was.
C21_BurnIdempotent ==
  [][ (call'.op = "report_usage" /\ call'.burns # <<>>) =>
        LET u == call'.burns[1]
        IN  u \in redis.burned =>
              /\ ~call'.raised
              /\ redis'.burned = redis.burned
              /\ redis'.active = redis.active \ {u}
              /\ u \in redis.active \/ redis'.active = redis.active ]_vars

\* a second report over the burn threshold on a proxy that the first one
\* burned: the burn ran twice, the sets are those the first burn left
C21_Witness ==
  /\ call.op = "report_usage"
  /\ call.burns # <<>>
  /\ call.burns[1] \notin call.active_before
  /\ call.burns[1] \in redis.burned
  /\ call.burns[1] \notin redis.active
  /\ Cardinality(BurnAlertsFor(call.burns[1])) = 2

\* C22: when an operation fails inside an iteration of the health monitor,
\* the cost monitor or the rotation scheduler, the error does not leave the
\* loop: the task, like the other two, is still scheduled for its next
\* iteration.
C22_LoopSurvivesError ==
  (call.op \in Loops /\ call.failed # None) =>
    /\ ~call.raised
    /\ call.op \in service.tasks
    /\ service.tasks = Loops

\* the rotation scheduler after a failed write of a proxy that was due, with
\* the clock past the rotation age
C22_Witness ==
  /\ call.op = "rotation_scheduler"
  /\ call.failed = <<"hset">>
  /\ now > RotateAfterMinutes
  /\ "rotation_scheduler" \in service.tasks

\* the records one health-monitor iteration read, by the score it computed
ScannedBelow(k) ==
  {i \in 1..Len(call.scanned) : ScoreBelow(call.scanned[i].score, k)}
RecordedBefore ==
  {u \in call.active_before :
     \E i \in 1..Len(call.scanned) : call.scanned[i].url = u}

\* C23: a completed health-monitor iteration reads every active proxy that
\* has a record exactly once; it counts the proxy as unhealthy iff its score
\* is below 50 and as healthy otherwise; it burns the proxy iff its score is
\* below 20, so no proxy scoring 20 or more is burned.
C23_HealthCounts ==
  (call.op = "health_monitor" /\ call.failed = None) =>
    /\ Len(call.scanned) = Cardinality(RecordedBefore)
    /\ call.unhealthy = Cardinality(ScannedBelow(UnhealthyBelow))
    /\ call.healthy = Len(call.scanned) - call.unhealthy
    /\ Len(call.burns) = Cardinality(ScannedBelow(BurnBelow))
    /\ {call.burns[i] : i \in 1..Len(call.burns)}
         = {call.scanned[i].url : i \in ScannedBelow(BurnBelow)}

\* an iteration over two records: one scoring below 50 but not below 20,
\* counted unhealthy and kept, the other counted healthy
C23_Witness ==
  /\ call.op = "health_monitor"
  /\ call.failed = None
  /\ Len(call.scanned) = 2
  /\ call.unhealthy = 1
  /\ call.healthy = 1
  /\ call.burns = <<>>
  /\ ScannedBelow(UnhealthyBelow) # {}


\* C24: a completed health-monitor iteration calls _provision_proxies iff it
\* counted fewer than 10 healthy proxies, and then exactly once, with the
\* target 20 minus the healthy count; with 10 or more it does not call it.
C24_ProvisionWhenLow ==
  (call.op = "health_monitor" /\ call.failed = None) =>
    /\ call.healthy < 10 <=> call.provisioned # <<>>
    /\ call.healthy < 10 => call.provisioned = <<20 - call.healthy>>
    /\ call.healthy >= 10 => call.provisioned = <<>>

\* an iteration that counted one healthy and one unhealthy proxy and asked
\* for 19, which the registered providers delivered
C24_Witness ==
  /\ call.op = "health_monitor"
  /\ call.failed = None
  /\ call.healthy = 1
  /\ call.unhealthy = 1
  /\ call.provisioned = <<19>>
  /\ providers = ProviderNames
  /\ redis.active = Urls


\* the ledger total and the persisted running daily total
LedgerTotal ==
  SumSeq([i \in 1..Len(ProviderOrder) |-> Cost(cost_tracker, ProviderOrder[i])])
PersistedTotal == redis.metrics_proxy_cost_today

\* C25: the persisted daily total plus the ledger total grows in a step by
\* the cost that step accrues -- the charge of a report, nothing in a
\* cost-monitor cycle, failing or not -- so that it equals the sum of all
\* costs ever accrued.
C25_LedgerConserved ==
  [][ PersistedTotal' + LedgerTotal' =
        PersistedTotal + LedgerTotal
          + (IF call'.op = "report_usage"
             THEN calculate_cost(held'[call'.caller][1],
                                 call'.args[1].bandwidth_mb)
             ELSE 0) ]_vars

\* C26: a cost-monitor cycle publishes a cost alert on system_alerts only
\* when the ledger total exceeds $5.00, and a cycle without a failing
\* operation whose total exceeds $5.00 publishes exactly one, carrying the
\* total.
C26_AlertWhenHigh ==
  [][ call'.op = "cost_monitor" =>
        LET over == LedgerTotal > 5000 * CostUnitsPerMilli
            was  == redis.system_alerts
            is   == redis'.system_alerts
        IN  /\ is # was => over
            /\ (over /\ call'.failed = None) =>
                  /\ Len(is) = Len(was) + 1
                  /\ SubSeq(is, 1, Len(was)) = was
                  /\ is[Len(is)].type = "alert"
                  /\ is[Len(is)].total_cost = LedgerTotal
            /\ ~over => is = was ]_vars

\* a cycle that published an alert for a ledger of $6.00 and flushed it
C26_Witness ==
  /\ call.op = "cost_monitor"
  /\ call.failed = None
  /\ Len(redis.system_alerts) = 1
  /\ redis.system_alerts[1].total_cost = 6000 * CostUnitsPerMilli
  /\ PersistedTotal = 6000 * CostUnitsPerMilli
  /\ cost_tracker = NoCosts


\* C27: a completed rotation-scheduler iteration replaces the record of an
\* active proxy by the result of rotate_ip iff the record has a sticky
\* session id, a lastUsed more than 15 minutes in the past and a provider
\* tag that is registered; every other record is left as it was, and
\* nothing is raised.
C27_RotationCondition ==
  [][ (call'.op = "rotation_scheduler" /\ call'.failed = None) =>
        /\ ~call'.raised
        /\ \E rnd \in RandomDraws : \A u \in Urls :
             LET data == redis.proxy[u]
                 due  == /\ u \in redis.active
                         /\ data # None
                         /\ data[1].sticky_session_id # None
                         /\ data[1].last_used # NoTime
                         /\ now - data[1].last_used > 15
                         /\ data[1].provider \in providers
             IN  redis'.proxy[u] =
                   IF due THEN <<to_dict(rotate_ip(from_dict(data[1]), now, rnd))>>
                   ELSE data ]_vars

\* an iteration half an hour after the last use: the Bright Data record has
\* the session of this iteration, the Oxylabs record, which has no sticky
\* session, still its first one
C27_Witness ==
  /\ call.op = "rotation_scheduler"
  /\ call.failed = None
  /\ now > RotateAfterMinutes
  /\ redis.proxy[BrightDataUrl] # None
  /\ redis.proxy[BrightDataUrl][1].sticky_session_id[2] = now
  /\ redis.proxy[BrightDataUrl][1].last_used # now
  /\ redis.proxy[OxylabsUrl] # None
  /\ redis.proxy[OxylabsUrl][1].username = OxylabsProxy(0, 4).username
  /\ redis.proxy[OxylabsUrl][1].last_used = 0


\* the session id in the credentials of a proxy
SessionOf(p) == p.username

\* C28: rotate_ip, of either provider, returns the proxy with a session id
\* different from the one it had, and with the same url, provider, type,
\* location, counters, bandwidth, lastUsed, lastError and response times.
C28_RotateFrame ==
  call.op = "rotate_ip" =>
    LET before == call.args[1]
        after  == call.ret[1]
    IN  /\ SessionOf(after) # SessionOf(before)
        /\ after.url = before.url
        /\ after.provider = before.provider
        /\ after.proxy_type = before.proxy_type
        /\ after.location = before.location
        /\ after.requests = before.requests
        /\ after.success = before.success
        /\ after.failures = before.failures
        /\ after.total_bandwidth_mb = before.total_bandwidth_mb
        /\ after.last_used = before.last_used
        /\ after.last_error = before.last_error
        /\ after.response_times = before.response_times


\* the proxies the callers got from get_proxies, by caller and position
Acquired == UNION {{<<c, i>> : i \in 1..Len(held[c])} : c \in Callers}

\* C29: the session ids in the credentials of the proxies a provider
\* returned, in one get_proxies call or in several, are pairwise distinct.
C29_SessionsDistinct ==
  \A x \in Acquired, y \in Acquired :
    (x # y /\ held[x[1]][x[2]].provider = held[y[1]][y[2]].provider) =>
      SessionOf(held[x[1]][x[2]]) # SessionOf(held[y[1]][y[2]])


\* the last proxy of a batch of k that provider n returns at t, and the url
\* all of n's proxies carry
LastOfBatch(n, t, k) ==
  IF n = "bright_data" THEN BrightDataProxy(t, k - 1) ELSE OxylabsProxy(t, k - 1)
UrlOf(n) == IF n = "bright_data" THEN BrightDataUrl ELSE OxylabsUrl

\* C30: a health-monitor iteration that provisions with target C asks each
\* of the P >= 1 registered providers for floor(C / P) proxies -- the record
\* left under the provider's url is the last of a batch of that size -- and
\* writes nothing for a provider that is not registered; with no provider
\* registered it acquires nothing and raises nothing.
C30_ProvisionShare ==
  [][ (call'.op = "health_monitor" /\ call'.failed = None
         /\ call'.provisioned # <<>>) =>
        LET C == call'.provisioned[1]
            P == Cardinality(providers)
        IN  /\ ~call'.raised
            /\ \A n \in ProviderNames :
                 IF n \in providers
                 THEN /\ redis'.proxy[UrlOf(n)] =
                           <<to_dict(LastOfBatch(n, now, C \div P))>>
                      /\ UrlOf(n) \in redis'.active
                 ELSE /\ redis'.proxy[UrlOf(n)] = redis.proxy[UrlOf(n)]
                      /\ UrlOf(n) \in redis'.active => UrlOf(n) \in redis.active
      ]_vars

\* an iteration that asked two providers for 19 proxies, 9 each
C30_Witness ==
  /\ call.op = "health_monitor"
  /\ call.failed = None
  /\ call.provisioned = <<19>>
  /\ providers = ProviderNames
  /\ redis.proxy[BrightDataUrl] = <<to_dict(BrightDataProxy(now, 8))>>
  /\ redis.proxy[OxylabsUrl] = <<to_dict(OxylabsProxy(now, 8))>>


\* C31: when get_proxies of one provider raises during the provisioning of a
\* health-monitor iteration, nothing is raised out of the provisioning (the
\* iteration goes on to write its metrics), every other registered provider
\* is asked for its share, the proxy it returns last being the record under
\* its url and the url being active, and the failing provider's record is
\* not written.
C31_ProviderFailureIsolated ==
  [][ (call'.op = "health_monitor" /\ Len(call'.failed) = 2
         /\ call'.failed[1] = "get_proxies") =>
        LET bad == call'.failed[2]
            C == call'.provisioned[1]
            P == Cardinality(providers)
        IN  /\ ~call'.raised
            /\ redis'.metrics_proxy_health # None
            /\ redis'.metrics_proxy_health[1].last_check = now
            /\ redis'.proxy[UrlOf(bad)] = redis.proxy[UrlOf(bad)]
            /\ \A n \in providers \ {bad} :
                 /\ redis'.proxy[UrlOf(n)] =
                      <<to_dict(LastOfBatch(n, now, C \div P))>>
                 /\ UrlOf(n) \in redis'.active ]_vars

\* Bright Data, the first provider asked, failed; Oxylabs delivered its 9 of
\* the 19 asked for
C31_Witness ==
  /\ call.op = "health_monitor"
  /\ call.failed = <<"get_proxies", "bright_data">>
  /\ call.provisioned = <<19>>
  /\ providers = ProviderNames
  /\ redis.proxy[OxylabsUrl] = <<to_dict(OxylabsProxy(now, 8))>>
  /\ OxylabsUrl \in redis.active
  /\ redis.proxy[BrightDataUrl] # <<to_dict(BrightDataProxy(now, 8))>>

\* the active records a rotation-scheduler iteration would rotate now
EligibleForRotation ==
  {u \in redis.active :
     /\ redis.proxy[u] # None
     /\ should_rotate(from_dict(redis.proxy[u][1]), providers, now)}

\* Only Bright Data proxies carry a sticky session and all of them share one
\* url: an iteration never has two proxies to rotate, so the isolation of a
\* rotation failure from the proxies of other providers (C32) has no case.
OneEligibleAtMost ==
  /\ Cardinality(EligibleForRotation) <= 1
  /\ EligibleForRotation \subseteq {BrightDataUrl}

\* the active identifiers without a record, and those with one
MissingRecords == {u \in redis.active : redis.proxy[u] = None}
RecordedActive == redis.active \ MissingRecords
SeqRange(s) == {s[i] : i \in 1..Len(s)}

\* C33: no scan of the active set raises an error for, selects, counts or
\* burns an identifier that has no record: get_proxy does not return it, the
\* health monitor and rotate_proxies count and burn only identifiers with a
\* record, the rotation scheduler writes no record for it and get_stats
\* counts only identifiers with a record in its health breakdown.
C33_MissingRecordSkipped ==
  [][ /\ call'.op \in {"get_proxy", "health_monitor", "rotation_scheduler",
                       "get_stats", "rotate_proxies"}
      /\ call'.failed = None
      /\ redis.active # {}
      =>
      /\ ~call'.raised
      /\ \A u \in MissingRecords : redis'.proxy[u] = None \/ call'.provisioned # <<>>
      /\ call'.op = "get_proxy" =>
           call'.ret = None \/ call'.ret[1] \notin MissingRecords
      /\ call'.op = "health_monitor" =>
           /\ call'.healthy + call'.unhealthy = Cardinality(RecordedActive)
           /\ SeqRange(call'.burns) \cap MissingRecords = {}
      /\ call'.op = "rotate_proxies" =>
           /\ call'.healthy + Len(call'.burns) = Cardinality(RecordedActive)
           /\ SeqRange(call'.burns) \cap MissingRecords = {}
      /\ call'.op = "get_stats" =>
           LET h == call'.ret[1].health_breakdown
           IN  h.excellent + h.good + h.fair + h.poor
                 = Cardinality(RecordedActive) ]_vars

\* C34: a provisioning in which every provider succeeds adds one active
\* identifier, with a record of its own, for each of the k proxies acquired,
\* and leaves the records that existed before as they were.
C34_ProvisionAddsEntries ==
  [][ (call'.op = "health_monitor" /\ call'.failed = None
         /\ call'.provisioned # <<>>) =>
        LET P == Cardinality(providers)
            k == IF P = 0 THEN 0 ELSE P * (call'.provisioned[1] \div P)
        IN  /\ Cardinality(redis'.active) =
                 Cardinality(redis.active \ SeqRange(call'.burns)) + k
            /\ \A u \in Urls :
                 redis.proxy[u] # None => redis'.proxy[u] = redis.proxy[u] ]_vars

\* the number of burn alerts for u among the alerts published
BurnAlertCount(alerts, u) ==
  Cardinality({i \in DOMAIN alerts :
                 alerts[i].message = "Proxy burned" /\ alerts[i].proxy_url = u})

\* C35: whenever a step moves an identifier from the active set into the
\* burned set, whichever component takes it, the step also puts the 24-hour
\* expiry on the identifier's record and publishes one burn alert for it.
C35_BurnAlwaysExpiresAndAlerts ==
  [][ \A u \in Urls :
        (u \in redis.active /\ u \notin redis.burned /\ u \in redis'.burned) =>
          /\ redis.proxy[u] # None => redis'.expire[u] = 86400
          /\ BurnAlertCount(redis'.system_alerts, u)
               = BurnAlertCount(redis.system_alerts, u) + 1 ]_vars

\* the burn policy on a stored record read at t
BurnPolicyHolds(data, t) ==
  /\ data # None
  /\ \/ /\ data[1].failures * 100 > 30 * data[1].requests
        /\ data[1].requests > 10
     \/ ScoreBelow(health_score(from_dict(data[1]), t), 20)

\* C36: whenever a step moves an identifier from the active set into the
\* burned set, the record the burning component acted on -- the one it read,
\* or the one it had just written -- has failure rate above 30% with more
\* than 10 requests, or a health score below 20.
C36_BurnedOnlyByPolicy ==
  [][ \A u \in Urls :
        (u \in redis.active /\ u \notin redis.burned /\ u \in redis'.burned) =>
          \/ BurnPolicyHolds(redis.proxy[u], now)
          \/ BurnPolicyHolds(redis'.proxy[u], now) ]_vars

\* the active identifiers whose record scores 50 or more now
HealthyActive ==
  {u \in redis.active :
     /\ redis.proxy[u] # None
     /\ ~ScoreBelow(health_score(from_dict(redis.proxy[u][1]), now), 50)}

\* C37: with both providers registered, a completed health-monitor iteration
\* that counted fewer than 10 healthy proxies ends with at least 10 active
\* identifiers whose records score 50 or more.
C37_PoolReplenished ==
  (/\ call.op = "health_monitor"
   /\ call.failed = None
   /\ providers = ProviderNames
   /\ call.healthy < 10) =>
    Cardinality(HealthyActive) >= 10

\* C38: when the callers hold the same proxy, obtained through get_proxy,
\* every report_usage call that returns raises the persisted requests
\* counter of that proxy by exactly one, so that after one report by each
\* caller it has grown by the number of reports made.
C38_NoReportLost ==
  [][ (/\ call'.op = "report_usage"
       /\ ~call'.raised
       /\ \A c \in Callers : held[c] # None /\ <<held[c][1].url>> = call'.ret
       /\ redis.proxy[call'.ret[1]] # None) =>
        /\ redis'.proxy[call'.ret[1]] # None
        /\ redis'.proxy[call'.ret[1]][1].requests
             = redis.proxy[call'.ret[1]][1].requests + 1 ]_vars

\* C39: the record of an identifier that is in the active set carries no
\* expiry.
C39_ActiveRecordNeverExpires ==
  \A u \in redis.active : redis.expire[u] = 0

\* C40: a request whose get_proxy returned a proxy makes exactly one
\* report_usage call for it, with success true iff the outbound request
\* completed without an exception or error status, and with bandwidth 0
\* when it did not; the request raises iff it did not.  A request whose
\* get_proxy returned None raises and makes no report_usage call.
C40_OneReportPerRequest ==
  call.op = "request" =>
    IF call.ret = None
    THEN call.raised /\ call.args = <<>>
    ELSE /\ Len(call.args) = 1
         /\ call.args[1].success <=> call.failed = None
         /\ ~call.args[1].success => call.args[1].bandwidth_mb = 0
         /\ call.raised <=> ~call.args[1].success
         /\ redis.proxy[call.ret[1]] # None
         /\ redis.proxy[call.ret[1]][1].requests >= 1

\* a request answered with an error status: one report, a failure without
\* bandwidth, and the error raised
C40_Witness ==
  /\ call.op = "request"
  /\ call.ret # None
  /\ call.failed = <<"status">>
  /\ Len(call.args) = 1
  /\ ~call.args[1].success
  /\ call.args[1].bandwidth_mb = 0
  /\ call.raised

=============================================================================
